---- MODULE Spec2Model ----
(***************************************************************************)
(* One call of OpenAIService.__call__ (src/marker/services/openai.py):     *)
(* the retry loop around client.beta.chat.completions.parse, the           *)
(* classification of each attempt's failure by the except clauses, the     *)
(* waits between attempts and the normalization of the response text.      *)
(*                                                                         *)
(* A response text is a sequence of characters over Chars:                 *)
(*   "{" "}"  the structural characters of a JSON object                   *)
(*   "k"      the member "a":1                                             *)
(*   "n"      U+00A0, which str.strip() removes and json.loads rejects     *)
(*   "x"      any other character (prose)                                  *)
(* The texts hold no JSON whitespace (space, tab, newline).                *)
(* A Python dict is a function from its keys; {} is the empty function.    *)
(* An image is named by its pixels ("p", "q"); "bad" is an image whose     *)
(* save() raises.  None is the integer -1: the overrides are >= 0.         *)
(*                                                                         *)
(* The same call in the variant src/marker/services/openai（出错）.py, and  *)
(* process_all_pdfs (src/run_marker_dir.py), which runs process_pdf over   *)
(* the PDF files of a directory.  A file is its stem and its extension.    *)
(***************************************************************************)
EXTENDS Integers, Sequences, FiniteSets, TLC

\* ---- bounds of the model ----
MaxRetries == 4
MaxLen == 4
MaxTokens == 2
MaxImages == 2
MaxTimeout == 1
MaxFiles == 3

\* ---- program constants ----
BackoffUnit == 3
BackoffCap == 10
ParsePause == 1
ErrorPause == 1
DefaultMaxRetries == 3
None == -1

Chars == {"{", "}", "k", "n", "x"}
Texts == UNION {[1..n -> Chars] : n \in 0..MaxLen}

StripWhitespace == {"n"}

EmptyDict == [key \in {} |-> 0]

Prompts == {"P1", "P2"}
Schemas == {"S1", "S2"}
ImageIds == {"p", "q", "bad"}
Timeouts == 0..MaxTimeout
CallIds == {1, 2}

\* The image argument: one image, or a list of images.
OneImage(img) == [image |-> img]
ImageList(imgs) == [list |-> imgs]
ImageArgs ==
  {OneImage(img) : img \in ImageIds}
    \cup {ImageList(imgs) : imgs \in UNION {[1..n -> ImageIds] : n \in 0..MaxImages}}

VARIABLES
  pc,            \* "start" (at line 62), "loop" (at the while test), "received" (the client
                 \* returned), "returned", "raised"
  prompt,        \* the argument prompt
  image,         \* the argument image
  response_schema, \* the argument response_schema
  max_retries,   \* the argument max_retries, rebound by lines 82-83
  timeout,       \* the argument timeout, rebound by lines 85-86
  service,       \* the fields of self the call reads
  messages,      \* the local messages (<<>> while unbound)
  tries,         \* the local tries
  wait_time,     \* the local wait_time (0 while unbound)
  response,      \* <<>> while unbound, else <<[content, total_tokens]>>
  exc,           \* class of the exception that ended the latest attempt ("none": no exception)
  result,        \* <<>> until the call returns, then <<the returned dict>>
  block,         \* the usage counters of the block's metadata
  attempts,      \* history: number of client calls issued
  slept,         \* history: seconds slept by the last failed iteration (0: none)
  all_transient, \* history: every attempt so far ended in a timeout or rate-limit error
  sent,          \* history: <<>> before the first attempt, else <<the request of the latest one>>
  calls,         \* the locals of the calls that run concurrently on one service object
  dir_pc,        \* process_all_pdfs: "idle", "walk" (at line 19), "loop" (at the for), "done"
  walked,        \* the files os.walk yields under input_dir, in its order
  pdf_files,     \* the local pdf_files
  pdf_pos,       \* number of elements of pdf_files the for loop has taken
  process_pdf_calls, \* history: the arguments of the calls of process_pdf, in order
  handled        \* history: how the iteration of each file taken ended

\* What the retry loop never assigns.
batch == <<dir_pc, walked, pdf_files, pdf_pos, process_pdf_calls, handled>>

frame == <<prompt, image, response_schema, timeout, service, messages, calls, batch>>

vars == <<pc, max_retries, tries, wait_time, response, exc, result, block,
          attempts, slept, all_transient, sent, frame>>

\* ---- exceptions ----
TransientErrors == {"APITimeoutError", "RateLimitError"}
FatalErrors == {"AuthenticationError"}
ClientErrors == TransientErrors \cup FatalErrors

\* The base classes of each exception class (openai and json libraries).
Bases(e) ==
  CASE e = "APITimeoutError" -> {"APITimeoutError", "APIConnectionError", "APIError", "Exception"}
    [] e = "RateLimitError" -> {"RateLimitError", "APIStatusError", "APIError", "Exception"}
    [] e = "AuthenticationError" -> {"AuthenticationError", "APIStatusError", "APIError", "Exception"}
    [] e = "JSONDecodeError" -> {"JSONDecodeError", "ValueError", "Exception"}
    [] e = "ValueError" -> {"ValueError", "Exception"}
    [] e = "OSError" -> {"OSError", "Exception"}
    [] OTHER -> {e}

IsInstance(e, classes) == Bases(e) \cap classes # {}

\* ---- response text ----
RECURSIVE LStrip(_, _)
LStrip(t, ws) ==
  IF t # <<>> /\ Head(t) \in ws THEN LStrip(Tail(t), ws) ELSE t

RECURSIVE RStrip(_, _)
RStrip(t, ws) ==
  IF t # <<>> /\ t[Len(t)] \in ws THEN RStrip(SubSeq(t, 1, Len(t) - 1), ws) ELSE t

Strip(t, ws) == RStrip(LStrip(t, ws), ws)

\* json.loads: an object with at most the member k, and nothing around it.
JsonLoads(t) ==
  LET inner == SubSeq(t, 2, Len(t) - 1)
  IN IF Len(t) >= 2 /\ t[1] = "{" /\ t[Len(t)] = "}" /\ inner \in {<<>>, <<"k">>}
     THEN [ok |-> TRUE, value |-> IF inner = <<"k">> THEN [a |-> 1] ELSE EmptyDict]
     ELSE [ok |-> FALSE, value |-> EmptyDict]

StartsWithOpen(t) == t # <<>> /\ t[1] = "{"
EndsWithClose(t) == t # <<>> /\ t[Len(t)] = "}"

Returns(v) == [returns |-> TRUE, value |-> v, raises |-> "none"]
Raises(e) == [returns |-> FALSE, value |-> EmptyDict, raises |-> e]

Normalize_DropsPayload(text) ==
  IF JsonLoads(text).ok THEN Returns(EmptyDict) ELSE Raises("JSONDecodeError")

Normalize_Fallback(text) ==
  IF JsonLoads(text).ok THEN Returns(JsonLoads(text).value)
  ELSE Returns([content |-> text, format |-> "markdown"])

\* Lines 119-132: strict parse, then a parse of the stripped text when it
\* starts and ends with a structural character, else the JSONDecodeError again.
Normalize(text) ==
  LET parsed == JsonLoads(text)
      cleaned == Strip(text, StripWhitespace)
  IN IF parsed.ok THEN Returns(parsed.value)
     ELSE IF StartsWithOpen(cleaned) /\ EndsWithClose(cleaned) /\ JsonLoads(cleaned).ok
          THEN Returns(JsonLoads(cleaned).value)
          ELSE Raises("JSONDecodeError")

\* Lines 114-132: what the try body does with a response.
TryBody(r) ==
  IF r.content = <<>> THEN Raises("ValueError") ELSE Normalize(r.content)

\* ---- retry policy ----
Min(a, b) == IF a < b THEN a ELSE b

LoopCondition_OneMore(t, m) == t <= m

LoopCondition_OneLess(t, m) == t + 1 < m

LoopCondition_AtLeastOnce(t, m) == t < m \/ t = 0

\* Line 92: the while test.
LoopCondition(t, m) == t < m

WaitTime_Uncapped(t) == t * BackoffUnit

\* Line 137: the wait after a timeout or rate-limit error, t the tries made.
WaitTime(t) == Min(t * BackoffUnit, BackoffCap)

\* Lines 153-154: the pause after any other error, skipped after the last try.
ErrorSleep(t, m) == IF t < m THEN ErrorPause ELSE 0

TriesAfter_ErrorsFree(clause, t) == IF clause = "generic" THEN t ELSE t + 1

TriesAfter_ParseFree(clause, t) == IF clause = "json" THEN t ELSE t + 1

TriesAfter_TransientFree(clause, t) == IF clause = "transient" THEN t ELSE t + 1

\* Lines 136, 146, 152: every handler counts the try.
TriesAfter(clause, t) == t + 1

\* Lines 137-139, 147, 153-154: seconds slept by the handler, t the tries made.
SleepAfter(clause, t, m) ==
  CASE clause = "transient" -> WaitTime(t)
    [] clause = "json" -> ParsePause
    [] clause = "generic" -> ErrorSleep(t, m)

ExceptClause_NoCatchAll(e) ==
  IF IsInstance(e, TransientErrors) THEN "transient"
  ELSE IF IsInstance(e, {"JSONDecodeError"}) THEN "json"
  ELSE "uncaught"

\* Lines 134, 142, 150: the first except clause that matches, in source order.
ExceptClause(e) ==
  IF IsInstance(e, TransientErrors) THEN "transient"
  ELSE IF IsInstance(e, {"JSONDecodeError"}) THEN "json"
  ELSE IF IsInstance(e, {"Exception"}) THEN "generic"
  ELSE "uncaught"

\* ---- the request ----
\* Lines 30-33: the WEBP bytes of the image, base64-encoded.
ImageToBase64(img) == <<"base64", "WEBP", img>>

CanSave_Always(img) == TRUE

\* Line 32: image.save raises for an image that cannot be serialized.
CanSave(img) == img # "bad"

ImagesOf_Reversed(images) ==
  IF "image" \in DOMAIN images THEN <<images.image>>
  ELSE [i \in 1..Len(images.list) |-> images.list[Len(images.list) + 1 - i]]

\* Lines 38-39: one image becomes a list of one image.
ImagesOf(images) == IF "image" \in DOMAIN images THEN <<images.image>> ELSE images.list

\* Lines 42-49: the part of the message that carries one image.
ImagePart(img) ==
  [type |-> "image_url",
   image_url |-> [url |-> <<"data:image/webp;base64,", ImageToBase64(img)>>]]

\* Lines 35-51: one part for every image, in the order of the images.
PrepareImages(images) ==
  LET imgs == ImagesOf(images) IN
  IF \A i \in 1..Len(imgs) : CanSave(imgs[i])
  THEN Returns([i \in 1..Len(imgs) |-> ImagePart(imgs[i])])
  ELSE Raises("OSError")

Messages_ImagesFirst(p, parts) ==
  <<[role |-> "user", content |-> parts \o <<[type |-> "text", text |-> p]>>]>>

\* Lines 69-77: one user message, the prompt first and the image parts after it.
Messages(p, parts) ==
  <<[role |-> "user", content |-> <<[type |-> "text", text |-> p]>> \o parts]>>

Resolve_Truthy(arg, configured) == IF arg = None \/ arg = 0 THEN configured ELSE arg

\* Lines 82-86: the configured value stands in for an argument that is None.
Resolve(arg, configured) == IF arg = None THEN configured ELSE arg

Request_TimeoutGrows ==
  [model |-> service.openai_model,
   messages |-> messages,
   timeout |-> timeout + tries,
   response_format |-> response_schema]

\* Lines 95-104: what every attempt passes to the client.
Request ==
  [model |-> service.openai_model,
   messages |-> messages,
   timeout |-> timeout,
   response_format |-> response_schema]

BlockAfterSuccess_Replaces(b, r) ==
  [llm_request_count |-> b.llm_request_count + 1,
   llm_tokens_used |-> b.llm_tokens_used + r.total_tokens,
   other |-> "replaced"]

\* Lines 114-123: no statement of the call touches the block.
BlockAfterSuccess(b, r) == b

\* ---- the call ----
NoCalls == [c \in CallIds |-> [pc |-> "idle", max_retries |-> 0, tries |-> 0, exc |-> "none",
                               attempts |-> 0, failed |-> 0, slept |-> 0]]

\* process_all_pdfs is not running.
NoBatch ==
  /\ dir_pc = "idle"
  /\ walked = <<>>
  /\ pdf_files = <<>>
  /\ pdf_pos = 0
  /\ process_pdf_calls = <<>>
  /\ handled = <<>>

Unstarted ==
  /\ tries = 0
  /\ wait_time = 0
  /\ response = <<>>
  /\ exc = "none"
  /\ result = <<>>
  /\ block = [llm_request_count |-> 0, llm_tokens_used |-> 0, other |-> "unit"]
  /\ attempts = 0
  /\ slept = 0
  /\ all_transient = TRUE
  /\ sent = <<>>

\* The call at line 92, the request of one prompt and one image assembled.
Init ==
  /\ pc = "loop"
  /\ prompt = "P1"
  /\ image = OneImage("p")
  /\ response_schema = "S1"
  /\ max_retries \in 0..MaxRetries
  /\ timeout = MaxTimeout
  /\ service = [openai_model |-> "gpt-4o-mini", max_retries |-> DefaultMaxRetries,
                timeout |-> MaxTimeout]
  /\ messages = Messages(prompt, PrepareImages(image).value)
  /\ calls = NoCalls
  /\ NoBatch
  /\ Unstarted

\* The call at line 62, with the arguments as the caller gave them.
CallInit ==
  /\ pc = "start"
  /\ prompt \in Prompts
  /\ image \in ImageArgs
  /\ response_schema \in Schemas
  /\ max_retries \in {None} \cup (0..MaxRetries)
  /\ timeout \in {None} \cup Timeouts
  /\ service = [openai_model |-> "gpt-4o-mini", max_retries |-> DefaultMaxRetries,
                timeout |-> MaxTimeout]
  /\ messages = <<>>
  /\ calls = NoCalls
  /\ NoBatch
  /\ Unstarted

\* Lines 69-89: the message is built and the defaults are filled in.
Assemble ==
  /\ pc = "start"
  /\ PrepareImages(image).returns
  /\ messages' = Messages(prompt, PrepareImages(image).value)
  /\ max_retries' = Resolve(max_retries, service.max_retries)
  /\ timeout' = Resolve(timeout, service.timeout)
  /\ tries' = 0
  /\ pc' = "loop"
  /\ UNCHANGED <<prompt, image, response_schema, service, calls, wait_time, response,
                 exc, result, block, attempts, slept, all_transient, sent, batch>>

\* Line 74: an image cannot be serialized and the exception leaves the call.
AssembleFails ==
  /\ pc = "start"
  /\ ~PrepareImages(image).returns
  /\ pc' = "raised"
  /\ UNCHANGED <<max_retries, tries, wait_time, response, exc, result, block,
                 attempts, slept, all_transient, sent, frame>>

\* Lines 134-155: the handler that catches e, up to the continue.  The text of
\* a failed iteration is never read again (line 115 rebinds response_text
\* before every read), so the response is not carried to the next iteration.
Except(e) ==
  LET clause == ExceptClause(e) IN
  /\ response' = <<>>
  /\ all_transient' = (all_transient /\ e \in TransientErrors)
  /\ UNCHANGED <<max_retries, result, block, frame>>
  /\ IF clause = "uncaught"
     THEN /\ pc' = "raised"
          /\ UNCHANGED <<tries, wait_time, exc, slept>>
     ELSE /\ pc' = "loop"
          /\ exc' = e
          /\ tries' = TriesAfter(clause, tries)
          /\ wait_time' = IF clause = "transient" THEN WaitTime(tries') ELSE wait_time
          /\ slept' = SleepAfter(clause, tries', max_retries)

\* Lines 92-104 and a handler: the client raises e.
SendFails ==
  /\ pc = "loop"
  /\ LoopCondition(tries, max_retries)
  /\ attempts' = attempts + 1
  /\ sent' = <<Request>>
  /\ \E e \in ClientErrors : Except(e)

\* Lines 92-104: the client returns a response with a text of T and a usage of U.
SendRespondsFrom(T, U) ==
  /\ pc = "loop"
  /\ LoopCondition(tries, max_retries)
  /\ attempts' = attempts + 1
  /\ sent' = <<Request>>
  /\ \E text \in T, tokens \in U :
       response' = <<[content |-> text, total_tokens |-> tokens]>>
  /\ pc' = "received"
  /\ all_transient' = FALSE
  /\ exc' = "none"
  /\ UNCHANGED <<max_retries, tries, wait_time, result, block, slept, frame>>

SendResponds == SendRespondsFrom(Texts, 1..MaxTokens)

\* One text of each kind the try body tells apart: empty, undecodable, payload.
SampleTexts == {<<>>, <<"x">>, <<"{", "k", "}">>}

SendSample == SendRespondsFrom(SampleTexts, {1})

\* Lines 106-155: the rest of the iteration once a response is there.
ProcessResponse ==
  /\ pc = "received"
  /\ LET body == TryBody(response[1]) IN
       IF body.returns
       THEN /\ pc' = "returned"
            /\ result' = <<body.value>>
            /\ block' = BlockAfterSuccess(block, response[1])
            /\ UNCHANGED <<max_retries, tries, wait_time, response, exc,
                           slept, all_transient, frame>>
       ELSE Except(body.raises)
  /\ UNCHANGED <<attempts, sent>>

\* Lines 157-159: the loop ends.
ReturnEmpty ==
  /\ pc = "loop"
  /\ ~LoopCondition(tries, max_retries)
  /\ pc' = "returned"
  /\ result' = <<EmptyDict>>
  /\ UNCHANGED <<max_retries, tries, wait_time, response, exc, block, attempts,
                 slept, all_transient, sent, frame>>

Next == SendFails \/ SendResponds \/ ProcessResponse \/ ReturnEmpty

Spec == Init /\ [][Next]_vars

\* The whole call, from its arguments on.
CallNext ==
  Assemble \/ AssembleFails \/ SendFails \/ SendSample \/ ProcessResponse \/ ReturnEmpty

CallSpec == CallInit /\ [][CallNext]_vars

\* The retry loop with the sample texts.  The call runs on the caller's thread:
\* the client call and time.sleep block and come back, so a step that can be
\* taken is taken.
SampleNext == SendFails \/ SendSample \/ ProcessResponse \/ ReturnEmpty

FairSampleSpec == Init /\ [][SampleNext]_vars /\ WF_vars(SampleNext)

\* ---- several calls on one service object ----
\* Lines 82-92 and 162-163: max_retries, timeout, client and tries are locals of
\* each call's frame; the service object is only read (lines 83, 86, 98, 163).
\* calls[c] is the frame of call c; failed counts the failed attempts of c.
TriesCell_Shared(c) == 1

\* Line 89: the counter a call reads and writes is the one of its own frame.
TriesCell(c) == c

TriesOf(c) == calls[TriesCell(c)].tries

single == <<pc, prompt, image, response_schema, max_retries, timeout, service, messages,
            tries, wait_time, response, exc, result, block, attempts, slept,
            all_transient, sent, batch>>

ConcurrentInit ==
  /\ pc = "start"
  /\ prompt = "P1"
  /\ image = OneImage("p")
  /\ response_schema = "S1"
  /\ max_retries = None
  /\ timeout = None
  /\ service = [openai_model |-> "gpt-4o-mini", max_retries |-> DefaultMaxRetries,
                timeout |-> MaxTimeout]
  /\ messages = <<>>
  /\ calls = NoCalls
  /\ NoBatch
  /\ Unstarted

\* Lines 82-89 of call c, given the override arg.
CallStart(c) ==
  /\ calls[c].pc = "idle"
  /\ \E arg \in {None} \cup (0..MaxRetries) :
       calls' = [calls EXCEPT ![c].pc = "loop",
                              ![c].max_retries = Resolve(arg, service.max_retries),
                              ![TriesCell(c)].tries = 0]
  /\ UNCHANGED single

\* Lines 92-155 of call c: one iteration whose attempt or response raises e.
CallFails(c) ==
  /\ calls[c].pc = "loop"
  /\ LoopCondition(TriesOf(c), calls[c].max_retries)
  /\ \E e \in ClientErrors \cup {TryBody([content |-> t, total_tokens |-> 1]).raises :
                                 t \in {u \in SampleTexts : ~Normalize(u).returns}} :
       LET clause == ExceptClause(e)
           t == TriesAfter(clause, TriesOf(c))
       IN calls' = [calls EXCEPT ![c].attempts = @ + 1,
                                 ![c].failed = @ + 1,
                                 ![c].exc = e,
                                 ![c].slept = SleepAfter(clause, t, calls[c].max_retries),
                                 ![TriesCell(c)].tries = t]
  /\ UNCHANGED single

\* Lines 92-129 of call c: one iteration whose response decodes.
CallSucceeds(c) ==
  /\ calls[c].pc = "loop"
  /\ LoopCondition(TriesOf(c), calls[c].max_retries)
  /\ \E t \in SampleTexts : Normalize(t).returns
  /\ calls' = [calls EXCEPT ![c].attempts = @ + 1, ![c].pc = "returned"]
  /\ UNCHANGED single

\* Lines 157-159 of call c.
CallReturnsEmpty(c) ==
  /\ calls[c].pc = "loop"
  /\ ~LoopCondition(TriesOf(c), calls[c].max_retries)
  /\ calls' = [calls EXCEPT ![c].pc = "empty"]
  /\ UNCHANGED single

ConcurrentNext ==
  \E c \in CallIds : CallStart(c) \/ CallFails(c) \/ CallSucceeds(c) \/ CallReturnsEmpty(c)

ConcurrentSpec == ConcurrentInit /\ [][ConcurrentNext]_vars

\* ---- the variant src/marker/services/openai（出错）.py ----
\* Line 93: the argument output_format.
OutputFormats == {"markdown", "json"}

\* Lines 146, 164-167, 170: the text wrapped with the name of its format.
VariantEnvelope(text, format) == [content |-> text, format |-> format]

\* Lines 148, 156: the handlers of the variant, in source order.
VariantExceptClause(e) ==
  IF IsInstance(e, TransientErrors) THEN "transient"
  ELSE IF IsInstance(e, {"Exception"}) THEN "break"
  ELSE "uncaught"

\* Line 151: the wait of the variant has no upper limit.
VariantWaitTime(t) == t * BackoffUnit

\* Lines 139-140: update_metadata adds the values to the counters of the block.
UpdateMetadata(b, tokens, count) ==
  [b EXCEPT !.llm_tokens_used = @ + tokens, !.llm_request_count = @ + count]

\* Lines 142-146: the parsed text, or the text in a markdown envelope.
VariantParse(text) ==
  IF JsonLoads(text).ok THEN JsonLoads(text).value ELSE VariantEnvelope(text, "markdown")

\* Lines 160-170, reached after the transient handler: r is the local response
\* (<<>>: response_text was never bound, and reading it raises
\* UnboundLocalError, which the handler of line 168 does not catch).
VariantTail(r, format) ==
  IF r = <<>> THEN Raises("UnboundLocalError")
  ELSE IF format = "json" /\ JsonLoads(r[1].content).ok
       THEN Returns(JsonLoads(r[1].content).value)
       ELSE Returns(VariantEnvelope(r[1].content, format))

\* Lines 123-135 and 148-170: the client raises e.
VariantSendFails ==
  /\ pc = "loop"
  /\ LoopCondition(tries, max_retries)
  /\ attempts' = attempts + 1
  /\ sent' = <<Request>>
  /\ \E e \in ClientErrors, format \in OutputFormats :
       LET clause == VariantExceptClause(e)
           tail == VariantTail(response, format)
       IN /\ exc' = e
          /\ all_transient' = (all_transient /\ e \in TransientErrors)
          /\ IF clause = "transient"
             THEN /\ tries' = tries + 1
                  /\ wait_time' = VariantWaitTime(tries')
                  /\ slept' = wait_time'
                  /\ pc' = IF tail.returns THEN "returned" ELSE "raised"
                  /\ result' = IF tail.returns THEN <<tail.value>> ELSE result
             ELSE /\ pc' = "returned"
                  /\ result' = <<None>>
                  /\ UNCHANGED <<tries, wait_time, slept>>
  /\ UNCHANGED <<max_retries, response, block, frame>>

\* Lines 123-135: the client returns a response.
VariantSendResponds == SendRespondsFrom(Texts, 1..MaxTokens)

\* Lines 136-146: the counters are updated and the text is returned, parsed or
\* in an envelope.
VariantProcessResponse ==
  /\ pc = "received"
  /\ block' = UpdateMetadata(block, response[1].total_tokens, 1)
  /\ result' = <<VariantParse(response[1].content)>>
  /\ pc' = "returned"
  /\ UNCHANGED <<max_retries, tries, wait_time, response, exc, attempts, slept,
                 all_transient, sent, frame>>

\* Line 123 false: the function ends without a return statement.
VariantReturnNone ==
  /\ pc = "loop"
  /\ ~LoopCondition(tries, max_retries)
  /\ pc' = "returned"
  /\ result' = <<None>>
  /\ UNCHANGED <<max_retries, tries, wait_time, response, exc, block, attempts,
                 slept, all_transient, sent, frame>>

VariantNext ==
  VariantSendFails \/ VariantSendResponds \/ VariantProcessResponse \/ VariantReturnNone

VariantSpec == Init /\ [][VariantNext]_vars

\* ---- process_all_pdfs (src/run_marker_dir.py) ----
\* The files under input_dir: a stem and an extension each.
FileNames ==
  {[stem |-> "a", ext |-> ".pdf"], [stem |-> "b", ext |-> ".PDF"],
   [stem |-> "c", ext |-> ".txt"], [stem |-> "d", ext |-> ".pdf"]}

\* Line 21: what os.walk yields, every file once.
Walks ==
  {w \in UNION {[1..n -> FileNames] : n \in 0..MaxFiles} :
     \A i, k \in 1..Len(w) : i # k => w[i] # w[k]}

\* Line 22: str.lower on an extension.
Lower(ext) == IF ext = ".PDF" THEN ".pdf" ELSE ext

\* Line 22: file.lower().endswith('.pdf').
IsPdf(file) == Lower(file.ext) = ".pdf"

\* Lines 19-23: the PDF files, in the order of the walk.
PdfFiles(w) == SelectSeq(w, IsPdf)

\* Lines 28-30: os.makedirs raises when the target directory cannot be made.
PrepareErrors == {"OSError"}

\* Line 32: what process_pdf raises (run_marker.py raises ValueError for a
\* missing setting; writing the output raises OSError).
ProcessErrors == {"ValueError", "OSError"}

DirAfterFailure_Stops(e) == "raised"

\* Lines 34-35: the handler prints, and the for loop goes on.
DirAfterFailure(e) == IF IsInstance(e, {"Exception"}) THEN "loop" ELSE "raised"

\* What process_all_pdfs never assigns: the variables of the calls.
call_vars == <<pc, prompt, image, response_schema, max_retries, timeout, service, messages,
               tries, wait_time, response, exc, result, block, attempts, slept,
               all_transient, sent, calls>>

\* The call, not running.
NoCall ==
  /\ pc = "start"
  /\ prompt = "P1"
  /\ image = OneImage("p")
  /\ response_schema = "S1"
  /\ max_retries = None
  /\ timeout = None
  /\ service = [openai_model |-> "gpt-4o-mini", max_retries |-> DefaultMaxRetries,
                timeout |-> MaxTimeout]
  /\ messages = <<>>
  /\ calls = NoCalls
  /\ Unstarted

\* process_all_pdfs at line 19, the output root made.
DirInit ==
  /\ dir_pc = "walk"
  /\ walked \in Walks
  /\ pdf_files = <<>>
  /\ pdf_pos = 0
  /\ process_pdf_calls = <<>>
  /\ handled = <<>>
  /\ NoCall

\* Lines 19-24.
Discover ==
  /\ dir_pc = "walk"
  /\ pdf_files' = PdfFiles(walked)
  /\ dir_pc' = "loop"
  /\ UNCHANGED <<walked, pdf_pos, process_pdf_calls, handled, call_vars>>

\* Lines 25-30 and 34-35: the target directory of the next file cannot be made.
PrepareRaises ==
  /\ dir_pc = "loop"
  /\ pdf_pos < Len(pdf_files)
  /\ pdf_pos' = pdf_pos + 1
  /\ \E e \in PrepareErrors : dir_pc' = DirAfterFailure(e)
  /\ handled' = Append(handled, "unprepared")
  /\ UNCHANGED <<walked, pdf_files, process_pdf_calls, call_vars>>

\* Lines 25-32 and 34-35: process_pdf is called for the next file and raises.
ProcessRaises ==
  /\ dir_pc = "loop"
  /\ pdf_pos < Len(pdf_files)
  /\ pdf_pos' = pdf_pos + 1
  /\ process_pdf_calls' = Append(process_pdf_calls, pdf_files[pdf_pos'])
  /\ \E e \in ProcessErrors : dir_pc' = DirAfterFailure(e)
  /\ handled' = Append(handled, "failed")
  /\ UNCHANGED <<walked, pdf_files, call_vars>>

\* Lines 25-33: process_pdf is called for the next file and returns.
ProcessReturns ==
  /\ dir_pc = "loop"
  /\ pdf_pos < Len(pdf_files)
  /\ pdf_pos' = pdf_pos + 1
  /\ process_pdf_calls' = Append(process_pdf_calls, pdf_files[pdf_pos'])
  /\ handled' = Append(handled, "done")
  /\ UNCHANGED <<dir_pc, walked, pdf_files, call_vars>>

\* Line 25: the for loop is through.
DirDone ==
  /\ dir_pc = "loop"
  /\ pdf_pos = Len(pdf_files)
  /\ dir_pc' = "done"
  /\ UNCHANGED <<walked, pdf_files, pdf_pos, process_pdf_calls, handled, call_vars>>

DirNext == Discover \/ PrepareRaises \/ ProcessRaises \/ ProcessReturns \/ DirDone

DirSpec == DirInit /\ [][DirNext]_vars

TypeOK ==
  /\ pc \in {"start", "loop", "received", "returned", "raised"}
  /\ max_retries \in {None} \cup (0..MaxRetries)
  /\ tries \in 0..MaxRetries
  /\ attempts \in 0..MaxRetries
  /\ Len(response) <= 1
  /\ Len(result) <= 1

\* ---- notions the properties below use ----
ObjectTexts == {<<"{", "}">>, <<"{", "k", "}">>}
ObjectOf(t) == IF t = <<"{", "k", "}">> THEN [a |-> 1] ELSE EmptyDict

Opens(t) == {i \in 1..Len(t) : t[i] = "{"}
Closes(t) == {i \in 1..Len(t) : t[i] = "}"}
FirstOpen(t) == CHOOSE i \in Opens(t) : \A j \in Opens(t) : i <= j
LastClose(t) == CHOOSE i \in Closes(t) : \A j \in Closes(t) : j <= i

\* The text from the first opening to the last closing structural character.
BoundaryTrim(t) ==
  IF Opens(t) # {} /\ Closes(t) # {} THEN SubSeq(t, FirstOpen(t), LastClose(t)) ELSE <<>>

\* A payload with prose before and after it.
WrappedInProse(t) ==
  /\ Len(t) >= 2 /\ t[1] = "x" /\ t[Len(t)] = "x"
  /\ BoundaryTrim(t) \in ObjectTexts

\* Neither the text nor its boundary trim is a payload.
NoPayload(t) == t # <<>> /\ t \notin ObjectTexts /\ BoundaryTrim(t) \notin ObjectTexts

Received == pc = "received"
ReceivedText == response[1].content
NoCounts == [llm_request_count |-> 0, llm_tokens_used |-> 0, other |-> "unit"]
FormatTags == {"markdown", "json"}

\* C1 (as stated): a call whose attempts all ended in a timeout or rate-limit
\* error has made exactly max_retries + 1 attempts when it returns.
C1_AttemptsPlusOne ==
  (pc = "returned" /\ all_transient /\ exc \in TransientErrors)
    => attempts = max_retries + 1

\* C1 (amended): a call whose attempts all ended in a timeout or rate-limit
\* error returns the empty mapping after exactly max_retries attempts.
C1_AttemptsEqualBudget ==
  (pc = "returned" /\ all_transient)
    => (attempts = max_retries /\ result = <<EmptyDict>>)

C1_Witness ==
  pc = "returned" /\ all_transient /\ exc \in TransientErrors /\ attempts = 3

\* C2 (as stated): after an attempt failed with an error that is neither a
\* timeout nor a rate limit, no further attempt is issued.
C2_FatalAborts == [][(exc \in FatalErrors) => (attempts' = attempts)]_vars

\* C2 (amended): an attempt that failed with such an error has used one try
\* like any other failure; the next step is a further attempt while
\* tries < max_retries, and the return of the empty mapping otherwise.
C2_FatalConsumesOneTry ==
  [][(pc = "loop" /\ exc \in FatalErrors) =>
        /\ tries = attempts
        /\ IF tries < max_retries
           THEN attempts' = attempts + 1
           ELSE pc' = "returned" /\ result' = <<EmptyDict>> /\ attempts' = attempts]_vars

C2_Witness ==
  /\ pc = "loop" /\ exc \in FatalErrors /\ slept = ErrorPause
  /\ tries = 2 /\ attempts = 2 /\ tries < max_retries

\* C3: whatever the attempts' outcomes, no error leaves the call, and the call
\* can always go on until it has returned a mapping.
C3_AlwaysReturns ==
  /\ pc # "raised"
  /\ pc = "loop" => (result = <<>> /\ ENABLED (SendFails \/ ReturnEmpty))
  /\ pc = "received" =>
       /\ result = <<>> /\ response # <<>>
       /\ \/ TryBody(response[1]).returns
          \/ ExceptClause(TryBody(response[1]).raises) # "uncaught"
  /\ pc = "returned" => Len(result) = 1

C3_Witness ==
  pc = "returned" /\ result = <<EmptyDict>> /\ exc = "ValueError" /\ attempts = 3

\* C4: a call that returned a payload incremented the block's request counter
\* by 1 and its token counter by the usage of the response; a call that
\* returned the empty mapping of an exhausted budget changed neither.
C4_Counters ==
  pc = "returned" =>
    IF response # <<>>
    THEN block = [NoCounts EXCEPT !.llm_request_count = @ + 1,
                                  !.llm_tokens_used = @ + response[1].total_tokens]
    ELSE block = NoCounts

\* C5 (as stated): the waits of successive attempts never decrease, and no
\* wait exceeds the cap.
C5_WaitsNonDecreasing ==
  /\ [](slept <= BackoffCap)
  /\ [][(tries' = tries + 1 /\ slept > 0 /\ slept' > 0) => slept <= slept']_vars

\* C5 (amended): the waits after timeout and rate-limit errors never decrease
\* from one such wait to the next, and no wait of any kind exceeds the cap.
C5_BackoffNonDecreasing ==
  /\ [](slept <= BackoffCap /\ wait_time <= BackoffCap)
  /\ [][(wait_time <= wait_time')]_vars

C5_Witness ==
  exc \in TransientErrors /\ slept = BackoffCap /\ tries = 4 /\ ~all_transient

\* C6: the wait after a timeout or rate-limit failure of attempt i is
\* min(3 i, 10), whatever the earlier attempts failed with.
C6_WaitOfAttempt ==
  [][(tries' = tries + 1 /\ exc' \in TransientErrors) =>
        slept' = (IF attempts' * 3 < 10 THEN attempts' * 3 ELSE 10)]_vars

C6_Witness ==
  exc \in TransientErrors /\ ~all_transient /\ attempts = 4 /\ slept = 10 /\ wait_time = 10

\* C7: a response text that is a payload wrapped in prose makes the call
\* return the payload between the first opening and the last closing
\* structural character.
C7_BoundaryRepair ==
  [][(Received /\ WrappedInProse(ReceivedText)) =>
        (pc' = "returned" /\ result' = <<ObjectOf(BoundaryTrim(ReceivedText))>>)]_vars

\* C8: a response text without a recoverable payload makes the call return
\* the mapping of the raw text and the format tag.
C8_FallbackEnvelope ==
  [][(Received /\ NoPayload(ReceivedText)) =>
        /\ pc' = "returned"
        /\ \E tag \in FormatTags :
             result' = <<[content |-> ReceivedText, format |-> tag]>>]_vars

\* C9: a response text that decodes as it is makes the call return the decoded
\* payload, and the call issues no attempt after it.
C9_StrictParse ==
  /\ [][(Received /\ ReceivedText \in ObjectTexts) =>
          /\ pc' = "returned"
          /\ result' = <<ObjectOf(ReceivedText)>>
          /\ attempts' = attempts]_vars
  /\ [][pc = "returned" => attempts' = attempts]_vars

C9_Witness ==
  /\ pc = "returned" /\ response # <<>>
  /\ response[1].content = <<"{", "k", "}">>
  /\ result = <<[a |-> 1]>>
  /\ attempts = 2

\* C10: a response text without a recoverable payload makes the normalization
\* raise the parse error (json.JSONDecodeError) to the try statement around
\* it, which catches it; nothing is returned for that text.
C10_ParseErrorRaised ==
  [][(Received /\ NoPayload(ReceivedText)) =>
        (exc' = "JSONDecodeError" /\ pc' = "loop" /\ result' = <<>>)]_vars

C10_Witness ==
  pc = "loop" /\ exc = "JSONDecodeError" /\ slept = ParsePause /\ result = <<>> /\ tries = 1

\* ---- C11 .. C20 ----
ResponseErrors == {"ValueError", "JSONDecodeError"}

\* The text is a payload once the characters str.strip() removes are gone.
DecodesAfterStrip(t) ==
  \E i \in 1..Len(t), j \in 1..Len(t) :
    /\ SubSeq(t, i, j) \in ObjectTexts
    /\ \A m \in 1..Len(t) : (m < i \/ m > j) => t[m] \in StripWhitespace

\* C11: the number of network attempts made so far is between 0 and
\* max_retries + 1.
C11_AttemptsInRange == 0 <= attempts /\ attempts <= max_retries + 1

C11_Witness == pc = "returned" /\ attempts = max_retries /\ max_retries = 4

\* C12 (as stated): once an attempt has received a response, whatever its
\* text, no further network attempt is issued.
C12_NoAttemptAfterResponse ==
  [][(exc \in ResponseErrors) => (attempts' = attempts)]_vars

\* C12 (amended): a received response goes to the normalization; a text that
\* decodes ends the call with no further attempt; an empty or undecodable text
\* makes the attempt a failed try, after which a further attempt is issued
\* exactly while tries < max_retries.
C12_ResponseRetriedWhenUnusable ==
  /\ [][Received =>
          IF DecodesAfterStrip(ReceivedText)
          THEN pc' = "returned" /\ attempts' = attempts
          ELSE /\ pc' = "loop" /\ tries' = tries + 1 /\ attempts' = attempts
               /\ exc' = (IF ReceivedText = <<>> THEN "ValueError" ELSE "JSONDecodeError")]_vars
  /\ [][(pc = "loop" /\ exc \in ResponseErrors) =>
          /\ tries = attempts
          /\ IF tries < max_retries
             THEN attempts' = attempts + 1
             ELSE pc' = "returned" /\ result' = <<EmptyDict>> /\ attempts' = attempts]_vars

C12_Witness ==
  pc = "received" /\ attempts = 3 /\ tries = 2 /\ slept = ParsePause /\ ~all_transient

\* C13: after a timeout of an attempt that leaves the attempts made below
\* max_retries, the call has not ended and a further attempt is issued.
C13_TimeoutRetried ==
  /\ []((exc = "APITimeoutError" /\ attempts < max_retries) => pc = "loop")
  /\ \A n \in 0..MaxRetries :
       (exc = "APITimeoutError" /\ attempts = n /\ attempts < max_retries)
         ~> (attempts = n + 1)

C13_Witness ==
  exc = "APITimeoutError" /\ pc = "loop" /\ attempts = 2 /\ attempts < max_retries

\* ---- C14 ----
\* C14: when several calls run on the same service object, under every
\* interleaving each call's counter of tries is the number of its own failed
\* attempts, its attempts stay within its own max_retries, it returns the
\* empty mapping only after max_retries failed attempts of its own, its last
\* pause is the one its own failure and tries give, and the service object is
\* never written.
C14_CallsIndependent ==
  /\ [](\A c \in CallIds :
          LET k == calls[c] IN
          k.pc # "idle" =>
            /\ k.tries = k.failed
            /\ k.attempts <= k.max_retries
            /\ k.attempts = k.failed + (IF k.pc = "returned" THEN 1 ELSE 0)
            /\ k.pc = "empty" => k.failed = k.max_retries
            /\ k.exc # "none" =>
                 k.slept = SleepAfter(ExceptClause(k.exc), k.failed, k.max_retries))
  /\ [][service' = service]_vars

C14_Witness ==
  /\ calls[1].pc = "empty" /\ calls[1].max_retries = 2 /\ calls[1].failed = 2
  /\ calls[2].pc = "loop" /\ calls[2].max_retries = 4 /\ calls[2].failed = 3

\* ---- C15 ----
\* C15: the step that fills in the defaults puts the configured max_retries
\* (timeout) in place of an override that is None and keeps every other
\* override, 0 included; from then on the two values never change, every
\* attempt is sent with that timeout and counted against that max_retries, and
\* the configured defaults of the service are never written.
C15_OverridesUsedAsGiven ==
  /\ [][(pc = "start" /\ pc' = "loop") =>
          /\ max_retries' = (IF max_retries = None THEN service.max_retries ELSE max_retries)
          /\ timeout' = (IF timeout = None THEN service.timeout ELSE timeout)]_vars
  /\ [][(pc # "start") => (max_retries' = max_retries /\ timeout' = timeout)]_vars
  /\ [](sent # <<>> => (sent[1].timeout = timeout /\ attempts <= max_retries))
  /\ [][service' = service]_vars

C15_Witness ==
  /\ pc = "returned"
  /\ sent # <<>> /\ sent[1].timeout = 0 /\ service.timeout # 0
  /\ max_retries = 1 /\ service.max_retries # 1

\* ---- C16 ----
\* The image an encoded part was made from.
EncodedImageOf(part) == part.image_url.url[2][3]

ImagesGiven == IF image \in {OneImage(i) : i \in ImageIds} THEN <<image.image>> ELSE image.list

EncodedParts == Tail(messages[1].content)

\* C16: for N images prepare_images returns N parts, the i-th part encoding the
\* i-th image, and an image given on its own yields a sequence of one part.
C16_OnePartPerImage ==
  messages # <<>> =>
    /\ Len(EncodedParts) = Len(ImagesGiven)
    /\ \A i \in 1..Len(ImagesGiven) :
         /\ EncodedParts[i].type = "image_url"
         /\ EncodedParts[i].image_url.url[1] = "data:image/webp;base64,"
         /\ EncodedImageOf(EncodedParts[i]) = ImagesGiven[i]
    /\ image \in {OneImage(i) : i \in ImageIds} => Len(EncodedParts) = 1

C16_Witness == pc = "loop" /\ image = ImageList(<<"p", "q">>) /\ Len(EncodedParts) = 2

\* ---- C17 ----
\* C17: every request sent holds exactly one message, of the user, whose
\* content is one text segment with the caller's prompt as given, followed by
\* the encoded images in the order of the call and nothing else.
C17_SingleTurnMessage ==
  sent # <<>> =>
    LET msgs == sent[1].messages IN
    /\ Len(msgs) = 1
    /\ msgs[1].role = "user"
    /\ DOMAIN msgs[1] = {"role", "content"}
    /\ msgs[1].content[1] = [type |-> "text", text |-> prompt]
    /\ Len(msgs[1].content) = 1 + Len(ImagesGiven)
    /\ \A i \in 1..Len(ImagesGiven) :
         /\ msgs[1].content[i + 1].type = "image_url"
         /\ EncodedImageOf(msgs[1].content[i + 1]) = ImagesGiven[i]

C17_Witness ==
  /\ sent # <<>> /\ prompt = "P2" /\ image = ImageList(<<"q", "p">>)
  /\ attempts = 2

\* ---- C18 ----
\* C18: no step of the call changes a field of the block other than the two
\* usage counters, whether the call ends with a payload or with the empty
\* mapping.
C18_BlockFrame ==
  [][block' = [block EXCEPT !.llm_request_count = block'.llm_request_count,
                            !.llm_tokens_used = block'.llm_tokens_used]]_vars

C18_Witness ==
  pc = "returned" /\ result # <<EmptyDict>> /\ attempts = 2 /\ block.other = "unit"

\* ---- C19 ----
\* C19 as stated: a call that has returned has made at least one attempt, and
\* an attempt is issued only when no other attempt of the call is under way.
C19_AtLeastOneRoundTrip ==
  /\ [](pc = "returned" => attempts >= 1)
  /\ [][(attempts' # attempts) => (pc = "loop")]_vars

\* C19 amended: a call that has returned has made at least one attempt exactly
\* when max_retries >= 1, and none when max_retries is 0; attempts are issued
\* one at a time, each only after the one before has been handled (every
\* earlier attempt is counted in tries).
C19_RoundTripsSequential ==
  /\ [](pc = "returned" => (attempts >= 1 <=> max_retries >= 1))
  /\ [][(attempts' # attempts) =>
          (attempts' = attempts + 1 /\ pc = "loop" /\ tries = attempts)]_vars

C19_Witness == pc = "returned" /\ max_retries = 0 /\ attempts = 0 /\ result = <<EmptyDict>>

\* ---- C20 ----
FailsToSerialize == \E i \in 1..Len(ImagesGiven) : ImagesGiven[i] = "bad"

\* C20: when an image of the call cannot be serialized, no attempt is ever
\* sent, the call never enters the retry loop, and once the exception has left
\* the call nothing more happens.
C20_EncodingErrorAborts ==
  /\ [](FailsToSerialize =>
          (attempts = 0 /\ sent = <<>> /\ tries = 0 /\ pc \in {"start", "raised"}))
  /\ [][(pc = "start" /\ FailsToSerialize) => (pc' = "raised")]_vars
  /\ [][pc # "raised"]_vars

C20_Witness == pc = "raised" /\ image = ImageList(<<"p", "bad">>) /\ attempts = 0

\* ---- C21 .. C26 ----
\* ---- C21 ----
\* C21: at the head of the loop after a failed attempt, if the handler of that
\* attempt waited, a further attempt follows: the tries made are still below
\* max_retries.  No handler waits after the last attempt.
C21_WaitsBetweenAttempts ==
  (pc = "loop" /\ exc # "none" /\ slept > 0) => tries < max_retries

\* ---- C22 ----
\* C22: every call comes to its return; every iteration that does not return
\* ends at the head of the loop with tries one higher, and tries never passes
\* max_retries.
C22_Terminates ==
  /\ <>(pc = "returned")
  /\ [][(pc' = "loop") => (tries' = tries + 1)]_vars
  /\ [](tries <= max_retries)

C22_Witness ==
  /\ pc = "returned" /\ result = <<EmptyDict>>
  /\ max_retries = 3 /\ tries = 3 /\ exc = "JSONDecodeError"

\* ---- C23 ----
\* C23: when the loop ends and the call returns the empty mapping, exactly
\* max_retries attempts were made and every one of them was counted as a failed
\* try, whatever kinds of failure they were.
C23_EmptyAfterBudget ==
  [][(pc = "loop" /\ pc' = "returned") =>
       /\ result' = <<EmptyDict>>
       /\ attempts = max_retries
       /\ tries = attempts
       /\ max_retries > 0 => exc # "none"]_vars

C23_Witness ==
  /\ pc = "returned" /\ result = <<EmptyDict>> /\ response = <<>>
  /\ attempts = 3 /\ tries = 3 /\ ~all_transient /\ exc = "RateLimitError"

\* ---- C24 ----
\* C24: once an attempt has been sent, every later attempt of the call sends the
\* same request; the message, the model, the schema and the timeout are those
\* fixed before the first attempt, and no step of the loop changes them.
C24_SameRequestEveryAttempt ==
  /\ [][(sent # <<>>) => (sent' = sent)]_vars
  /\ [][(pc # "start") =>
          /\ messages' = messages
          /\ response_schema' = response_schema
          /\ timeout' = timeout
          /\ service' = service]_vars
  /\ [](sent # <<>> =>
          sent[1] = [model |-> service.openai_model, messages |-> messages,
                     timeout |-> timeout, response_format |-> response_schema])

C24_Witness ==
  /\ pc = "loop" /\ attempts = 3 /\ sent # <<>>
  /\ sent[1].response_format = "S2" /\ image = ImageList(<<"p", "q">>)

\* ---- C25 ----
\* C25: in the variant, after an attempt failed with a timeout or rate-limit
\* error while tries < max_retries, the call is back at the head of the loop
\* for another attempt, and the call never raises.
C25_VariantRetriesTransient ==
  /\ pc # "raised"
  /\ (exc \in TransientErrors /\ tries < max_retries) => pc = "loop"

\* ---- C26 ----
\* The files among the first n of pdf_files whose target directory was made.
RECURSIVE PreparedUpTo(_)
PreparedUpTo(n) ==
  IF n = 0 THEN <<>>
  ELSE IF handled[n] = "unprepared" THEN PreparedUpTo(n - 1)
       ELSE Append(PreparedUpTo(n - 1), pdf_files[n])

\* C26 as stated: when process_all_pdfs is through, process_pdf has been called
\* exactly once for every PDF file found, in the order of discovery.
C26_EveryPdfProcessedOnce == dir_pc = "done" => process_pdf_calls = pdf_files

\* C26 amended: the loop takes every PDF file found once, in the order of
\* discovery, whatever happened to the files before it; process_pdf is called
\* once, in that order, for exactly the files whose target directory could be
\* made, and an exception of one file never ends the loop.
C26_EveryPdfVisited ==
  /\ [](/\ Len(handled) = pdf_pos
        /\ process_pdf_calls = PreparedUpTo(pdf_pos))
  /\ [](dir_pc = "done" => pdf_pos = Len(pdf_files))
  /\ [](dir_pc # "raised")
  /\ [][(dir_pc = "loop" /\ pdf_pos < Len(pdf_files)) =>
          (dir_pc' = "loop" /\ pdf_pos' = pdf_pos + 1)]_vars

C26_Witness ==
  /\ dir_pc = "done"
  /\ handled = <<"failed", "unprepared", "done">>
  /\ Len(process_pdf_calls) = 2

====
